---- MODULE Spec2Model ----
(***************************************************************************)
(* Model of backend/trade_algorithms/__init__.py (BaseAlgorithm): the      *)
(* constructor, order placement, the per-order fill watcher threads that   *)
(* share self.instance and self.session, and the start/kill/run loop.      *)
(*                                                                         *)
(* Money and share quantities are Python floats in the source; the model   *)
(* uses small integers, on which float arithmetic is exact.                *)
(*                                                                         *)
(* The ledger is the committed database; the session is the SQLAlchemy     *)
(* unit of work shared by the main thread and all watcher threads: objects *)
(* added to it are pending until any thread commits, a commit writes every *)
(* pending object and the current in-memory Instance, and a query through  *)
(* the session autoflushes and therefore sees the pending rows too.        *)
(***************************************************************************)
EXTENDS Integers, Sequences, FiniteSets, TLC

\* ---------------------------------------------------------------- bounds
MaxOrders == 2      \* orders submitted to the broker in one behaviour
MaxStarts == 2      \* calls of start() in one behaviour
MaxKills  == 1      \* items put on one kill queue
MaxWatched == 1     \* orders submitted in a behaviour that also starts and kills loops

Prices  == {1, 2}    \* prices quoted / filled by the broker
Qtys    == {1, 2}    \* quantities requested by the strategy
Symbols == {"X"}     \* symbols the strategy trades
Budgets == {5}       \* budget argument of the constructor

VARIABLES
    ctrl,            \* "none" before __init__, "live" after it returned, "failed" after it raised
    instId,          \* self.instance.id (0: no instance)
    instBalance,     \* self.instance.balance, the in-memory attribute
    balIncl,         \* history: orders whose decrement instBalance contains
    dbInstances,     \* committed Instance rows, id = index
    dbIncl,          \* history: orders whose decrement the committed balance contains
    dbHoldings,      \* committed Holding rows, in insertion order
    pendingHoldings, \* Holding objects added to the session, not yet committed
    orders,          \* broker-side orders, id = index
    watchers,        \* one _wait_for_order thread per order, same index
    killq,           \* one multiprocessing.Queue per start(): number of items on it
    loops,           \* one run() process per start(), same index as killq
    ret,             \* the last place_*_order call and what it returned (order id, 0 for None)
    start0           \* history: balance and Holdings when __init__ returned, and
                     \* whether __init__ created the Instance

vars == <<ctrl, instId, instBalance, balIncl, dbInstances, dbIncl, dbHoldings,
          pendingHoldings, orders, watchers, killq, loops, ret, start0>>

ledgerVars  == <<dbInstances, dbIncl, dbHoldings>>
sessionVars == <<instBalance, balIncl, pendingHoldings>>
brokerVars  == <<orders, watchers>>
loopVars    == <<killq, loops>>

\* ------------------------------------------------------------ data model
\* database/models: class Instance (id is the index in dbInstances)
Instance(budget, balance) == [budget |-> budget, balance |-> balance]

\* database/models: class Holding; order is a history field (the broker
\* order the row was created for, 0 for rows of an earlier run). Times are
\* logical: 0 for rows of an earlier run, then the rank of the fill.
Holding(ticker, shares, buy_price, created_at, owner, order) ==
    [ticker |-> ticker, shares |-> shares, buy_price |-> buy_price,
     created_at |-> created_at, owner |-> owner, order |-> order]

\* the value of ret after a call of place_buy_order / place_sell_order
Returned(op, order) == [op |-> op, order |-> order]

\* Ledgers left behind by earlier runs: Instance rows and the Holding rows
\* that reference them.
InitLedgers ==
    { [inst |-> <<>>, hold |-> <<>>],
      [inst |-> <<Instance(5, 3)>>, hold |-> <<>>],
      [inst |-> <<Instance(5, 3)>>, hold |-> <<Holding("X", 1, 2, 0, 1, 0)>>],
      [inst |-> <<Instance(5, 4), Instance(5, 0)>>,
       hold |-> <<Holding("X", 2, 1, 0, 2, 0)>>] }

Init ==
    /\ ctrl = "none"
    /\ instId = 0
    /\ instBalance = 0
    /\ balIncl = {}
    /\ \E l \in InitLedgers :
          /\ dbInstances = l.inst
          /\ dbHoldings = l.hold
    /\ dbIncl = {}
    /\ pendingHoldings = <<>>
    /\ orders = <<>>
    /\ watchers = <<>>
    /\ killq = <<>>
    /\ loops = <<>>
    /\ ret = Returned("none", 0)
    /\ start0 = [balance |-> 0, holdings |-> <<>>, fresh |-> FALSE]

\* --------------------------------------------------------------- helpers
RECURSIVE SumShares(_)
SumShares(rows) ==
    IF rows = <<>> THEN 0 ELSE Head(rows).shares + SumShares(Tail(rows))

\* What a query through self.session sees: committed rows and, after the
\* autoflush that precedes the SELECT, the session's pending rows.
SessionHoldings == dbHoldings \o pendingHoldings

\* mutant: the query is scoped to the current Instance
get_number_of_shares_own(symbol) ==
    LET match(h) == h.ticker = symbol /\ h.owner = instId
    IN  SumShares(SelectSeq(SessionHoldings, match))

\* get_number_of_shares: select(Holding).where(Holding.ticker == symbol)
get_number_of_shares(symbol) ==
    LET match(h) == h.ticker = symbol
    IN  SumShares(SelectSeq(SessionHoldings, match))

\* get_holdings: select(Holding).where(Holding.owner == self.instance.id)
get_holdings ==
    LET mine(h) == h.owner = instId
    IN  SelectSeq(SessionHoldings, mine)

\* get_holdings_by_ticker: .where(Holding.owner == self.instance.id)
\*                         .where(Holding.ticker == ticker)
get_holdings_by_ticker(ticker) ==
    LET mine(h) == h.owner = instId /\ h.ticker = ticker
    IN  SelectSeq(SessionHoldings, mine)

\* an omitted start / end argument of get_holdings_by_date
None == -1

\* what a call gives back: the exception it raised ("none": it returned)
\* and the rows it returned
Outcome(raised, rows) == [raised |-> raised, rows |-> rows]

\* get_holdings_by_date(start, end): start.datetime and end.datetime are
\* evaluated first, before any test for None; the tests and the three
\* statements follow in the order of the source.
get_holdings_by_date(start, end) ==
    LET since(h) == h.owner = instId /\ h.created_at >= start
        until(h) == h.owner = instId /\ h.created_at <= end
        within(h) == h.owner = instId /\ h.created_at >= start /\ h.created_at <= end
    IN  IF start = None THEN Outcome("AttributeError", <<>>)
        ELSE IF end = None THEN Outcome("AttributeError", <<>>)
        ELSE IF start = None /\ end = None THEN Outcome("ValueError", <<>>)
        ELSE IF start # None /\ end = None
             THEN Outcome("none", SelectSeq(SessionHoldings, since))
        ELSE IF start = None /\ end # None
             THEN Outcome("none", SelectSeq(SessionHoldings, until))
        ELSE Outcome("none", SelectSeq(SessionHoldings, within))

\* ----------------------------------------------------------- constructor
\* mutant: the API secret is not checked
Raises_nosecret(hasDb, hasKey, hasSecret) == ~hasDb \/ ~hasKey

\* __init__: the three raise ValueError tests -- neither engine nor
\* database_uri; no API_KEY argument and none in the environment; the same
\* for API_SECRET.
Raises(hasDb, hasKey, hasSecret) == ~hasDb \/ ~hasKey \/ ~hasSecret

\* __init__ raising: no engine and no database_uri, or no API key / secret
\* in the arguments or the environment.
InitFails(hasDb, hasKey, hasSecret) ==
    /\ ctrl = "none"
    /\ Raises(hasDb, hasKey, hasSecret)
    /\ ctrl' = "failed"
    /\ UNCHANGED <<instId, ledgerVars, sessionVars, brokerVars, loopVars, ret, start0>>

\* mutant: a resumed Instance gets the balance of a new one
InitResume_reset(i) ==
    /\ ctrl = "none"
    /\ i \in 1..Len(dbInstances)
    /\ ctrl' = "live"
    /\ instId' = i
    /\ instBalance' = 0
    /\ start0' = [balance |-> dbInstances[i].balance, holdings |-> dbHoldings,
                 fresh |-> FALSE]
    /\ UNCHANGED <<balIncl, ledgerVars, pendingHoldings, brokerVars, loopVars, ret>>

\* __init__ with instance=<persisted Instance i>: self.instance = instance,
\* nothing is added or committed.
InitResume(i) ==
    /\ ctrl = "none"
    /\ i \in 1..Len(dbInstances)
    /\ ctrl' = "live"
    /\ instId' = i
    /\ instBalance' = dbInstances[i].balance
    /\ start0' = [balance |-> dbInstances[i].balance, holdings |-> dbHoldings,
                 fresh |-> FALSE]
    /\ UNCHANGED <<balIncl, ledgerVars, pendingHoldings, brokerVars, loopVars, ret>>

\* mutant: the new Instance is not added and committed, so it has no id
InitFresh_unsaved(budget) ==
    /\ ctrl = "none"
    /\ ctrl' = "live"
    /\ instId' = 0
    /\ instBalance' = 0
    /\ start0' = [balance |-> 0, holdings |-> dbHoldings, fresh |-> TRUE]
    /\ UNCHANGED <<balIncl, ledgerVars, pendingHoldings, brokerVars, loopVars, ret>>

\* mutant: the new Instance starts with its budget as balance
InitFresh_budget(budget) ==
    /\ ctrl = "none"
    /\ ctrl' = "live"
    /\ dbInstances' = Append(dbInstances, Instance(budget, budget))
    /\ instId' = Len(dbInstances) + 1
    /\ instBalance' = budget
    /\ start0' = [balance |-> budget, holdings |-> dbHoldings, fresh |-> TRUE]
    /\ UNCHANGED <<balIncl, dbIncl, dbHoldings, pendingHoldings, brokerVars, loopVars, ret>>

\* __init__ with instance=None: Instance(budget=budget, balance=0) is added
\* to the session and committed, which assigns its id.
InitFresh(budget) ==
    /\ ctrl = "none"
    /\ ctrl' = "live"
    /\ dbInstances' = Append(dbInstances, Instance(budget, 0))
    /\ instId' = Len(dbInstances) + 1
    /\ instBalance' = 0
    /\ start0' = [balance |-> 0, holdings |-> dbHoldings, fresh |-> TRUE]
    /\ UNCHANGED <<balIncl, dbIncl, dbHoldings, pendingHoldings, brokerVars, loopVars, ret>>

\* __init__ called with or without a database, an API key and an API
\* secret: the tests come first, the Instance after them.
ConstructWith(hasDb, hasKey, hasSecret) ==
    IF Raises(hasDb, hasKey, hasSecret)
    THEN InitFails(hasDb, hasKey, hasSecret)
    ELSE \/ \E i \in 1..2 : InitResume(i)
         \/ \E b \in Budgets : InitFresh(b)

Construct == \E d, k, s \in BOOLEAN : ConstructWith(d, k, s)

\* ------------------------------------------------------- order placement
\* place_*_order: if crypto: symbol += 'USD'
EffSymbol(symbol, crypto) == IF crypto THEN symbol \o "USD" ELSE symbol

\* api.submit_order(symbol, qty, side, type='market', time_in_force='day'):
\* the broker's new order; price is a history field, the quote that
\* place_buy_order read before submitting (0 for a sell).
NewOrder(symbol, qty, side, price) ==
    [symbol |-> symbol, qty |-> qty, side |-> side, status |-> "new",
     filled_avg_price |-> 0, filled_qty |-> 0, filled_at |-> 0, price |-> price]

\* _process_order: Thread(target=_wait_for_order).start(); the thread starts
\* at its first api.get_order call.
NewWatcher == [pc |-> "poll", tmp |-> 0, incl |-> {}]

\* mutant: the affordability test forgets the cost of the order
CanAffordBuy_nocost(balance, buy_price) == ~(balance < 0)

\* place_buy_order: the affordability test against the in-memory balance
CanAffordBuy(balance, buy_price) == ~(balance - buy_price < 0)

\* mutant: an accepted buy reserves its cost at once
place_buy_order_reserving(symbol, qty, crypto, price) ==
    LET sym == EffSymbol(symbol, crypto)
        buy_price == price * qty
    IN  /\ ctrl = "live"
        /\ IF ~CanAffordBuy(instBalance, buy_price)
           THEN /\ ret' = Returned("buy", 0)
                /\ UNCHANGED <<brokerVars, instBalance>>
           ELSE /\ Len(orders) < MaxOrders
                /\ orders' = Append(orders, NewOrder(sym, qty, "buy", price))
                /\ watchers' = Append(watchers, NewWatcher)
                /\ ret' = Returned("buy", Len(orders) + 1)
                /\ instBalance' = instBalance - buy_price
        /\ UNCHANGED <<ctrl, instId, ledgerVars, balIncl, pendingHoldings,
                       loopVars, start0>>

\* place_buy_order(symbol, qty, crypto), price being what get_current_price
\* returns for the symbol at the time of the call.
place_buy_order(symbol, qty, crypto, price) ==
    LET sym == EffSymbol(symbol, crypto)
        buy_price == price * qty
    IN  /\ ctrl = "live"
        /\ IF ~CanAffordBuy(instBalance, buy_price)
           THEN /\ ret' = Returned("buy", 0)
                /\ UNCHANGED brokerVars
           ELSE /\ Len(orders) < MaxOrders
                /\ orders' = Append(orders, NewOrder(sym, qty, "buy", price))
                /\ watchers' = Append(watchers, NewWatcher)
                /\ ret' = Returned("buy", Len(orders) + 1)
        /\ UNCHANGED <<ctrl, instId, ledgerVars, sessionVars, loopVars, start0>>

\* mutant: the share test only asks for some shares
HasShares_any(held, qty) == held > 0

\* place_sell_order: the test against get_number_of_shares
HasShares(held, qty) == ~(held < qty)

\* place_sell_order(symbol, qty, crypto)
place_sell_order(symbol, qty, crypto) ==
    LET sym == EffSymbol(symbol, crypto)
    IN  /\ ctrl = "live"
        /\ IF ~HasShares(get_number_of_shares(sym), qty)
           THEN /\ ret' = Returned("sell", 0)
                /\ UNCHANGED brokerVars
           ELSE /\ Len(orders) < MaxOrders
                /\ orders' = Append(orders, NewOrder(sym, qty, "sell", 0))
                /\ watchers' = Append(watchers, NewWatcher)
                /\ ret' = Returned("sell", Len(orders) + 1)
        /\ UNCHANGED <<ctrl, instId, ledgerVars, sessionVars, loopVars, start0>>

\* ------------------------------------------------------------ the broker
\* the broker's clock: the rank of the next fill among the fills so far
FillTime == 1 + Cardinality({o \in 1..Len(orders) : orders[o].status = "filled"})

\* The broker fills a market order completely at a price of its choosing.
BrokerFill(o, p) ==
    /\ orders[o].status = "new"
    /\ orders' = [orders EXCEPT ![o].status = "filled",
                                ![o].filled_avg_price = p,
                                ![o].filled_qty = orders[o].qty,
                                ![o].filled_at = FillTime]
    /\ UNCHANGED <<ctrl, instId, ledgerVars, sessionVars, watchers, loopVars, ret, start0>>

\* The broker rejects or cancels the order: terminal, nothing filled.
BrokerEnd(o, status) ==
    /\ orders[o].status = "new"
    /\ orders' = [orders EXCEPT ![o].status = status]
    /\ UNCHANGED <<ctrl, instId, ledgerVars, sessionVars, watchers, loopVars, ret, start0>>

\* ------------------------------------------------------ the fill watcher
WatcherFrame == <<ctrl, instId, orders, loopVars, ret, start0>>

\* mutant: the status is compared with a word the broker never reports
SeesFilled_upper(status) == status = "FILLED"

\* mutant: the polling loop leaves on any terminal status
SeesFilled_terminal(status) == status # "new"

\* the status test of the polling loop
SeesFilled(status) == status = "filled"

\* while True: order = api.get_order(order_id); if order.status == 'filled':
\* break; else: time.sleep(1) -- one iteration; an iteration that does not
\* see 'filled' sleeps and leaves the thread where it was.
WaitPoll(o) ==
    /\ watchers[o].pc = "poll"
    /\ watchers' = [watchers EXCEPT ![o].pc =
                       IF SeesFilled(orders[o].status) THEN "read" ELSE "poll"]
    /\ UNCHANGED <<WatcherFrame, ledgerVars, sessionVars>>

\* self.instance.balance -= ... : the load of the attribute
ReadBalance(o) ==
    /\ watchers[o].pc = "read"
    /\ watchers' = [watchers EXCEPT ![o].pc = "write",
                                    ![o].tmp = instBalance,
                                    ![o].incl = balIncl]
    /\ UNCHANGED <<WatcherFrame, ledgerVars, sessionVars>>

\* mutant: the decrement forgets the quantity
Decrement_price(loaded, avg_price, qty) == loaded - avg_price

\* the value stored by self.instance.balance -= avg_price * qty
Decrement(loaded, avg_price, qty) == loaded - avg_price * qty

\* self.instance.balance -= ... : the store of the attribute
WriteBalance(o) ==
    /\ watchers[o].pc = "write"
    /\ instBalance' = Decrement(watchers[o].tmp, orders[o].filled_avg_price,
                                orders[o].filled_qty)
    /\ balIncl' = watchers[o].incl \cup {o}
    /\ watchers' = [watchers EXCEPT ![o].pc = "add", ![o].tmp = 0, ![o].incl = {}]
    /\ UNCHANGED <<WatcherFrame, ledgerVars, pendingHoldings>>

\* mutant: a sell is recorded as a negated position
FillHolding_signed(o) ==
    Holding(orders[o].symbol,
            IF orders[o].side = "sell" THEN 0 - orders[o].filled_qty
                                       ELSE orders[o].filled_qty,
            orders[o].filled_avg_price, orders[o].filled_at, instId, o)

\* Holding(created_at=arrow.get(order.filled_at).datetime, ticker=order.symbol,
\*         shares=qty, buy_price=avg_price, owner=self.instance.id)
FillHolding(o) ==
    Holding(orders[o].symbol, orders[o].filled_qty, orders[o].filled_avg_price,
            orders[o].filled_at, instId, o)

\* the rows session.add(holding) leaves pending
AddedRows(pending, o) == Append(pending, FillHolding(o))

\* session.add(holding)
AddHolding(o) ==
    /\ watchers[o].pc = "add"
    /\ pendingHoldings' = AddedRows(pendingHoldings, o)
    /\ watchers' = [watchers EXCEPT ![o].pc = "commit"]
    /\ UNCHANGED <<WatcherFrame, ledgerVars, instBalance, balIncl>>

\* _commit_instance: session.add(self.instance); session.commit() writes the
\* in-memory Instance and every pending object of the shared session.
CommitInstance(o) ==
    /\ watchers[o].pc = "commit"
    /\ dbInstances' = [dbInstances EXCEPT ![instId].balance = instBalance]
    /\ dbIncl' = balIncl
    /\ dbHoldings' = dbHoldings \o pendingHoldings
    /\ pendingHoldings' = <<>>
    /\ watchers' = [watchers EXCEPT ![o].pc = "done"]
    /\ UNCHANGED <<WatcherFrame, instBalance, balIncl>>

Watcher(o) ==
    \/ WaitPoll(o)
    \/ ReadBalance(o)
    \/ WriteBalance(o)
    \/ AddHolding(o)
    \/ CommitInstance(o)

\* ------------------------------------------------------------- lifecycle
\* start(): self.kill_queue = Queue(); Process(target=self.run).start()
Start ==
    /\ ctrl = "live"
    /\ Len(loops) < MaxStarts
    /\ killq' = Append(killq, 0)
    /\ loops' = Append(loops, [pc |-> "check", killed |-> FALSE])
    /\ UNCHANGED <<ctrl, instId, ledgerVars, sessionVars, brokerVars, ret, start0>>

\* mutant: kill() also cancels the orders the broker has not filled yet
Kill_cancels ==
    /\ ctrl = "live"
    /\ Len(killq) > 0
    /\ killq[Len(killq)] < MaxKills
    /\ killq' = [killq EXCEPT ![Len(killq)] = @ + 1]
    /\ loops' = [i \in 1..Len(loops) |->
                    IF loops[i].pc # "exited"
                    THEN [loops[i] EXCEPT !.killed = TRUE] ELSE loops[i]]
    /\ orders' = [o \in 1..Len(orders) |->
                     IF orders[o].status = "new"
                     THEN [orders[o] EXCEPT !.status = "canceled"] ELSE orders[o]]
    /\ UNCHANGED <<ctrl, instId, ledgerVars, sessionVars, watchers, ret, start0>>

\* kill(): self.kill_queue.put(True), on the queue of the latest start().
\* (Before any start() there is no kill_queue and kill() raises.)
\* killed is a history field: a kill() was issued while the loop was running.
Kill ==
    /\ ctrl = "live"
    /\ Len(killq) > 0
    /\ killq[Len(killq)] < MaxKills
    /\ killq' = [killq EXCEPT ![Len(killq)] = @ + 1]
    /\ loops' = [i \in 1..Len(loops) |->
                    IF loops[i].pc # "exited"
                    THEN [loops[i] EXCEPT !.killed = TRUE] ELSE loops[i]]
    /\ UNCHANGED <<ctrl, instId, ledgerVars, sessionVars, brokerVars, ret, start0>>

\* run(): not self.kill_queue.empty()
SeesKill(items) == items > 0

\* run(): if not self.kill_queue.empty(): break -- the checkpoint; the
\* process holds the queue that existed when it was started.
LoopCheck(p) ==
    /\ p \in 1..Len(loops)
    /\ loops[p].pc = "check"
    /\ loops' = [loops EXCEPT ![p].pc = IF SeesKill(killq[p]) THEN "exited" ELSE "sleep"]
    /\ UNCHANGED <<ctrl, instId, ledgerVars, sessionVars, brokerVars, killq, ret, start0>>

\* run(): time.sleep(1); print("Running...."), then the next iteration
LoopSleep(p) ==
    /\ p \in 1..Len(loops)
    /\ loops[p].pc = "sleep"
    /\ loops' = [loops EXCEPT ![p].pc = "check"]
    /\ UNCHANGED <<ctrl, instId, ledgerVars, sessionVars, brokerVars, killq, ret, start0>>

Loop(p) == LoopCheck(p) \/ LoopSleep(p)

\* --------------------------------------------------------- specification
Next ==
    \/ Construct
    \/ \E s \in Symbols, q \in Qtys, c \in BOOLEAN, p \in Prices :
          place_buy_order(s, q, c, p)
    \/ \E s \in Symbols, q \in Qtys, c \in BOOLEAN : place_sell_order(s, q, c)
    \/ \E o \in 1..Len(orders), p \in Prices : BrokerFill(o, p)
    \/ \E o \in 1..Len(orders), st \in {"rejected", "canceled"} : BrokerEnd(o, st)
    \/ \E o \in 1..Len(orders) : Watcher(o)
    \/ Start
    \/ Kill
    \/ \E p \in 1..Len(loops) : Loop(p)

Spec == Init /\ [][Next]_vars

\* The calls of the trading interface alone: start(), kill() and run() read
\* and write nothing but killq and loops, which no other action touches.
TradeNext ==
    \/ Construct
    \/ \E s \in Symbols, q \in Qtys, c \in BOOLEAN, p \in Prices :
          place_buy_order(s, q, c, p)
    \/ \E s \in Symbols, q \in Qtys, c \in BOOLEAN : place_sell_order(s, q, c)
    \/ \E o \in 1..Len(orders), p \in Prices : BrokerFill(o, p)
    \/ \E o \in 1..Len(orders), st \in {"rejected", "canceled"} : BrokerEnd(o, st)
    \/ \E o \in 1..Len(orders) : Watcher(o)

TradeSpec == Init /\ [][TradeNext]_vars

\* The trading interface with every watcher thread scheduled again and again.
FairTradeSpec ==
    /\ Init /\ [][TradeNext]_vars
    /\ \A o \in 1..MaxOrders : WF_vars(o <= Len(orders) /\ Watcher(o))

\* The lifecycle alone, each run() process being scheduled again and again
\* by the operating system.
LifeNext ==
    \/ Construct
    \/ Start
    \/ Kill
    \/ \E p \in 1..Len(loops) : Loop(p)

LifeSpec == Init /\ [][LifeNext]_vars /\ \A p \in 1..MaxStarts : WF_vars(Loop(p))

\* Orders and lifecycle together: the strategy places orders, starts and
\* kills loops; the operating system schedules every run() process and
\* every watcher thread again and again.
WatchedNext ==
    \/ Construct
    \/ /\ Len(orders) < MaxWatched
       /\ \E s \in Symbols, q \in Qtys, c \in BOOLEAN, p \in Prices :
             place_buy_order(s, q, c, p)
    \/ /\ Len(orders) < MaxWatched
       /\ \E s \in Symbols, q \in Qtys, c \in BOOLEAN : place_sell_order(s, q, c)
    \/ \E o \in 1..Len(orders), p \in Prices : BrokerFill(o, p)
    \/ \E o \in 1..Len(orders), st \in {"rejected", "canceled"} : BrokerEnd(o, st)
    \/ \E o \in 1..Len(orders) : Watcher(o)
    \/ Start
    \/ Kill
    \/ \E p \in 1..Len(loops) : Loop(p)

WatchedSpec ==
    /\ Init /\ [][WatchedNext]_vars
    /\ \A p \in 1..MaxStarts : WF_vars(Loop(p))
    /\ \A o \in 1..MaxOrders : WF_vars(o <= Len(orders) /\ Watcher(o))

\* ================================================================ claims
RECURSIVE SumCost(_)
SumCost(os) ==
    IF os = <<>> THEN 0
    ELSE Head(os).filled_avg_price * Head(os).filled_qty + SumCost(Tail(os))

\* number of rows of a table created for order o
RowsOf(rows, o) == LET forO(h) == h.order = o IN Len(SelectSeq(rows, forO))

AllFilledAndDone ==
    /\ ctrl = "live"
    /\ Len(orders) > 0
    /\ \A o \in 1..Len(orders) :
          orders[o].status = "filled" /\ watchers[o].pc = "done"

\* C1: once every order is filled and every fill watcher has finished, the
\* balance (in memory and committed) is the starting balance minus the sum
\* of filled_avg_price * filled_qty over the orders.
C1_BalanceAfterFills ==
    AllFilledAndDone =>
        /\ instBalance = start0.balance - SumCost(orders)
        /\ dbInstances[instId].balance = start0.balance - SumCost(orders)

\* only buys, each filled (if filled) at the quote read at placement and for
\* the requested quantity, on an Instance that started non-negative
OnlyBuysAtQuote ==
    /\ start0.balance >= 0
    /\ \A o \in 1..Len(orders) :
          /\ orders[o].side = "buy"
          /\ orders[o].status = "filled" =>
                /\ orders[o].filled_avg_price = orders[o].price
                /\ orders[o].filled_qty = orders[o].qty

\* C2: with only buy orders, each filling at the price read at placement
\* and for the requested quantity, the balance is never negative.
C2_BalanceNeverNegative ==
    OnlyBuysAtQuote => instBalance >= 0

\* C3: no Holding exists for an order that is not filled or whose watcher
\* has not seen it filled, no order ever has two Holdings, and an order
\* whose watcher finished has exactly one, committed.
C3_HoldingIffFilled ==
    /\ \A i \in 1..Len(SessionHoldings) :
          SessionHoldings[i].order \in 0..Len(orders)
    /\ \A o \in 1..Len(orders) :
          /\ orders[o].status # "filled" => RowsOf(SessionHoldings, o) = 0
          /\ watchers[o].pc \in {"poll", "read", "write", "add"} =>
                RowsOf(SessionHoldings, o) = 0
          /\ RowsOf(SessionHoldings, o) <= 1
          /\ watchers[o].pc = "done" =>
                RowsOf(dbHoldings, o) = 1 /\ orders[o].status = "filled"

\* a rejected order still without a Holding next to a filled, finished one
C3_Witness ==
    \E o1, o2 \in 1..Len(orders) :
        /\ orders[o1].status \in {"rejected", "canceled"}
        /\ RowsOf(SessionHoldings, o1) = 0
        /\ watchers[o2].pc = "done"
        /\ RowsOf(dbHoldings, o2) = 1

\* C4: in the committed ledger the balance contains an order's decrement
\* if and only if the order's Holding row is committed.
C4_FillAtomic ==
    \A o \in 1..Len(orders) : (o \in dbIncl) <=> (RowsOf(dbHoldings, o) > 0)

\* C5: a place_buy_order call whose cost exceeds the balance returns no
\* order, submits nothing, starts no watcher and leaves balance and Holdings
\* as they were.
C5_BuyRejected ==
    [][\A s \in Symbols, q \in Qtys, c \in BOOLEAN, p \in Prices :
          (place_buy_order(s, q, c, p) /\ q * p > instBalance) =>
              /\ ret' = Returned("buy", 0)
              /\ UNCHANGED <<orders, watchers, instBalance, dbInstances,
                             dbHoldings, pendingHoldings>>]_vars

\* a buy was refused while some cost was out of reach
C5_Witness ==
    /\ ctrl = "live"
    /\ ret = Returned("buy", 0)
    /\ \E q \in Qtys, p \in Prices : q * p > instBalance

\* C6: a place_sell_order call for more shares than get_number_of_shares
\* reports for the symbol of the order returns no order, submits nothing,
\* starts no watcher and leaves balance and Holdings as they were.
C6_SellRejected ==
    [][\A s \in Symbols, q \in Qtys, c \in BOOLEAN :
          (place_sell_order(s, q, c) /\ get_number_of_shares(EffSymbol(s, c)) < q) =>
              /\ ret' = Returned("sell", 0)
              /\ UNCHANGED <<orders, watchers, instBalance, dbInstances,
                             dbHoldings, pendingHoldings>>]_vars

\* a sell was refused although some shares of the symbol are held
C6_Witness ==
    /\ ctrl = "live"
    /\ ret = Returned("sell", 0)
    /\ \E s \in Symbols, q \in Qtys :
          get_number_of_shares(s) > 0 /\ get_number_of_shares(s) < q

\* the committed Holding rows of Instance i
OwnedBy(rows, i) == LET own(h) == h.owner = i IN SelectSeq(rows, own)

\* C7: the constructor step that resumes a persisted Instance leaves the
\* ledger as it was and yields the committed balance and the committed
\* Holdings of that Instance.
C7_ResumeRoundTrip ==
    [][(ctrl = "none" /\ ctrl' = "live" /\ instId' \in 1..Len(dbInstances)) =>
          /\ instBalance' = dbInstances[instId'].balance
          /\ get_holdings' = OwnedBy(dbHoldings, instId')
          /\ dbInstances' = dbInstances
          /\ dbHoldings' = dbHoldings
          /\ pendingHoldings' = <<>>]_vars

\* a resumed Instance with a balance and Holdings of its own, before any order
C7_Witness ==
    /\ ctrl = "live"
    /\ orders = <<>>
    /\ instBalance > 0
    /\ Len(get_holdings) > 0
    /\ instBalance = dbInstances[instId].balance

\* the orders whose watcher has seen them filled
Applied == {o \in 1..Len(orders) : watchers[o].pc # "poll"}

\* C8: when the only fill applied so far is a buy of q shares of T at p and
\* its watcher has finished, the balance is the starting balance minus p*q
\* and the Holdings are the starting ones plus one row (T, q, p, owner).
C8_SingleBuyFill ==
    \A o \in 1..Len(orders) :
        (Applied = {o} /\ watchers[o].pc = "done" /\ orders[o].side = "buy") =>
            /\ instBalance = start0.balance
                               - orders[o].filled_avg_price * orders[o].qty
            /\ dbInstances[instId].balance = instBalance
            /\ pendingHoldings = <<>>
            /\ dbHoldings = Append(start0.holdings,
                                   Holding(orders[o].symbol, orders[o].qty,
                                           orders[o].filled_avg_price,
                                           orders[o].filled_at, instId, o))

\* a buy of two shares reconciled alone
C8_Witness ==
    \E o \in 1..Len(orders) :
        /\ Applied = {o}
        /\ watchers[o].pc = "done"
        /\ orders[o].side = "buy"
        /\ orders[o].qty > 1
        /\ orders[o].filled_avg_price # orders[o].price

\* C9: once the constructor has returned, the controller's Instance is a
\* committed row; a constructor step that creates the Instance commits it
\* with balance 0; every Holding's owner is the id of a committed Instance.
C9_OwnerPersisted ==
    /\ [](ctrl = "live" => instId \in 1..Len(dbInstances))
    /\ [](\A i \in 1..Len(SessionHoldings) :
             SessionHoldings[i].owner \in 1..Len(dbInstances))
    /\ [][(ctrl = "none" /\ ctrl' = "live" /\ instId' \notin 1..Len(dbInstances)) =>
             /\ instId' = Len(dbInstances')
             /\ instId' = Len(dbInstances) + 1
             /\ dbInstances'[instId'].balance = 0
             /\ instBalance' = 0]_vars

\* a Holding owned by an Instance that this constructor created
C9_Witness ==
    /\ ctrl = "live"
    /\ instId = 3
    /\ \E i \in 1..Len(dbHoldings) : dbHoldings[i].owner = instId

\* C10: a loop never exits unless a kill() reached its queue, and a loop
\* that was running when kill() was issued eventually exits.
C10_LoopExitsOnKill ==
    /\ [](\A p \in 1..Len(loops) : loops[p].pc = "exited" => killq[p] > 0)
    /\ \A p \in 1..MaxStarts :
          (p <= Len(loops) /\ loops[p].killed)
              ~> (p <= Len(loops) /\ loops[p].pc = "exited")

\* C11: a kill() step and the steps of the loop change no order, no watcher,
\* no balance and no Holding; a watcher stores its decrement whatever the
\* loops do; and every order the broker has filled is eventually reconciled
\* (watcher finished, one committed Holding), killed loop or not.
C11_KillLeavesWatchers ==
    /\ [][(killq' # killq \/ loops' # loops) =>
             UNCHANGED <<orders, watchers, instBalance, dbInstances,
                         dbHoldings, pendingHoldings>>]_vars
    /\ [][\A o \in 1..Len(orders) :
             (watchers[o].pc = "write" /\ watchers'[o].pc = "add") =>
                 instBalance' = watchers[o].tmp
                     - orders[o].filled_avg_price * orders[o].filled_qty]_vars
    /\ \A o \in 1..MaxOrders :
          (o <= Len(orders) /\ orders[o].status = "filled")
              ~> (/\ o <= Len(orders)
                  /\ watchers[o].pc = "done"
                  /\ RowsOf(dbHoldings, o) = 1)

\* the loop has exited on a kill() and a watcher has just seen its order
\* filled, with the fill still to be applied
C11_Witness ==
    /\ \E p \in 1..Len(loops) : loops[p].pc = "exited" /\ killq[p] > 0
    /\ \E o \in 1..Len(orders) :
          /\ watchers[o].pc = "read"
          /\ RowsOf(SessionHoldings, o) = 0
          /\ instBalance = start0.balance

\* the arguments of get_holdings_by_date: a time, or omitted
DateArgs == {None} \cup (0..MaxOrders)

\* the rows of this Instance created within the bounds that are given
RowsBetween(start, end) ==
    LET ok(h) == /\ h.owner = instId
                 /\ (start = None \/ h.created_at >= start)
                 /\ (end = None \/ h.created_at <= end)
    IN  SelectSeq(SessionHoldings, ok)

\* C12: get_holdings_by_date returns the Instance's rows within the bounds
\* given, either bound may be omitted, and with neither bound it raises the
\* ValueError 'Either start or end must be provided'.
C12_HoldingsByDate ==
    ctrl = "live" =>
        \A start, end \in DateArgs :
            get_holdings_by_date(start, end) =
                IF start = None /\ end = None
                THEN Outcome("ValueError", <<>>)
                ELSE Outcome("none", RowsBetween(start, end))

\* the tickers a Holding can carry
Tickers == Symbols \cup {EffSymbol(t, TRUE) : t \in Symbols}

\* shares of ticker t in the first n rows, whoever owns them
RECURSIVE SharesOfAll(_, _, _)
SharesOfAll(rows, n, t) ==
    IF n = 0 THEN 0
    ELSE SharesOfAll(rows, n - 1, t)
           + (IF rows[n].ticker = t THEN rows[n].shares ELSE 0)

\* the positions of the rows that Instance i owns
OwnRows(i) == {n \in 1..Len(SessionHoldings) : SessionHoldings[n].owner = i}

C14_ConstructFails ==
    /\ [][\A d, k, s \in BOOLEAN :
             ((~d \/ ~k \/ ~s) /\ ConstructWith(d, k, s)) =>
                 /\ ctrl' = "failed"
                 /\ UNCHANGED <<dbInstances, dbHoldings, pendingHoldings,
                                instId, instBalance>>]_vars
    /\ [](ctrl = "failed" => instId = 0 /\ loops = <<>> /\ killq = <<>>)
    /\ [][ctrl = "failed" =>
             ctrl' = "failed" /\ UNCHANGED <<dbInstances, dbHoldings>>]_vars

\* a failed constructor call over a ledger that holds rows
C14_Witness ==
    /\ ctrl = "failed"
    /\ instId = 0
    /\ Len(dbInstances) > 0
    /\ Len(dbHoldings) > 0

\* how far a watcher thread has come
Rank(pc) ==
    CASE pc = "poll" -> 0 [] pc = "read" -> 1 [] pc = "write" -> 2
      [] pc = "add" -> 3 [] pc = "commit" -> 4 [] pc = "done" -> 5

\* C15: every order the broker has filled is eventually seen filled by its
\* watcher, which then terminates; the watcher goes through its steps once,
\* in order, leaving one committed Holding; and before it has seen the order
\* filled it has written neither the balance nor a Holding.
C15_FilledIsReconciled ==
    /\ \A o \in 1..MaxOrders :
          (o <= Len(orders) /\ orders[o].status = "filled")
              ~> (o <= Len(orders) /\ watchers[o].pc = "done")
    /\ [][\A o \in 1..Len(orders) :
             \/ watchers'[o].pc = watchers[o].pc
             \/ /\ Rank(watchers'[o].pc) = Rank(watchers[o].pc) + 1
                /\ orders[o].status = "filled"]_vars
    /\ [](\A o \in 1..Len(orders) :
             /\ watchers[o].pc = "done" => RowsOf(dbHoldings, o) = 1
             /\ watchers[o].pc \in {"poll", "read", "write"} =>
                   o \notin balIncl /\ o \notin dbIncl
             /\ watchers[o].pc \in {"poll", "read", "write", "add"} =>
                   RowsOf(SessionHoldings, o) = 0)

\* two orders filled and reconciled, the second filled after the first was done
C15_Witness ==
    /\ Len(orders) = 2
    /\ \A o \in 1..2 : watchers[o].pc = "done" /\ RowsOf(dbHoldings, o) = 1
    /\ dbIncl = {1, 2}

Dead(o) == orders[o].status \in {"rejected", "canceled"}

\* C16: an order the broker has rejected or cancelled stays so, and its
\* watcher stays in the polling loop for ever: it never terminates and never
\* writes the balance or a Holding for the order.
C16_DeadOrderSpins ==
    /\ [][\A o \in 1..Len(orders) : Dead(o) =>
             /\ orders'[o] = orders[o]
             /\ watchers'[o] = watchers[o]]_vars
    /\ [](\A o \in 1..Len(orders) : Dead(o) =>
             /\ watchers[o].pc = "poll"
             /\ o \notin balIncl /\ o \notin dbIncl
             /\ RowsOf(SessionHoldings, o) = 0)

\* one order rejected, the other filled and reconciled meanwhile
C16_Witness ==
    /\ Len(orders) = 2
    /\ \E o1, o2 \in 1..2 :
          /\ Dead(o1) /\ watchers[o1].pc = "poll"
          /\ orders[o2].status = "filled" /\ watchers[o2].pc = "done"

\* what applying a fill writes: the balance and the Holding rows
Books == <<instBalance, dbInstances, dbHoldings, pendingHoldings>>

\* C17: a place_buy_order / place_sell_order that is accepted returns the
\* new order, still unfilled, with its watcher started, and changes neither
\* balance nor Holdings; after construction these change only in a step of a
\* watcher whose order is filled and which has left the polling loop.
C17_PlaceDoesNotApply ==
    /\ [][Len(orders') > Len(orders) =>
             /\ UNCHANGED Books
             /\ ret'.order = Len(orders')
             /\ orders'[Len(orders')].status = "new"
             /\ watchers'[Len(orders')].pc = "poll"]_vars
    /\ [][(ctrl = "live" /\ Books' # Books) =>
             \E o \in 1..Len(orders) :
                 /\ orders[o].status = "filled"
                 /\ watchers[o].pc \in {"write", "add", "commit"}
                 /\ watchers'[o].pc # watchers[o].pc
                 /\ orders' = orders /\ ret' = ret]_vars

\* a buy was accepted and returned while the balance is still what the
\* constructor loaded, and the order has been filled since
C17_Witness ==
    /\ ret.op = "buy" /\ ret.order = Len(orders) /\ ret.order > 0
    /\ orders[ret.order].status = "filled"
    /\ watchers[ret.order].pc = "poll"
    /\ instBalance = start0.balance /\ instBalance > 0
    /\ SessionHoldings = start0.holdings

\* C18: once the constructor has returned no step raises the balance, and
\* the store of a watcher is the balance it loaded minus price times
\* quantity, for a sell as for a buy.
C18_BalanceNonIncreasing ==
    /\ [][ctrl = "live" => instBalance' <= instBalance]_vars
    /\ [][\A o \in 1..Len(orders) :
             (watchers[o].pc = "write" /\ watchers'[o].pc = "add") =>
                 instBalance' = watchers[o].tmp -
                     orders[o].filled_avg_price * orders[o].filled_qty]_vars

\* C19: for an Instance the constructor created, the balance starts at 0
\* and never exceeds 0, every place_buy_order (each has a positive cost)
\* returns no order, and no buy order is ever at the broker.
C19_FreshNeverBuys ==
    start0.fresh =>
        /\ instBalance <= 0
        /\ \A q \in Qtys, p \in Prices : ~CanAffordBuy(instBalance, p * q)
        /\ ret.op = "buy" => ret.order = 0
        /\ \A o \in 1..Len(orders) : orders[o].side # "buy"

\* a created Instance whose buy was refused after a sell of shares it found
\* in the table had been filled and applied
C19_Witness ==
    /\ start0.fresh
    /\ ret = Returned("buy", 0)
    /\ \E o \in 1..Len(orders) :
          orders[o].status = "filled" /\ watchers[o].pc = "done"
    /\ instBalance < 0

====
